---- MODULE Spec2Model ----
(***************************************************************************)
(* Sub-Zero: the subscription cancellation workflow                        *)
(* (orchestration/workflows/cancellation_workflow.py), the activities it   *)
(* runs (orchestration/activities/*.py), the browser agent behind the      *)
(* begin step (agent/browser_agent.py) and the cancellation endpoints of   *)
(* the API (backend/api/cancellations.py).                                 *)
(*                                                                         *)
(* One CancellationWorkflow object per instance.  Its run() coroutine is   *)
(* cut at its awaits: every action below is one synchronous segment of     *)
(* run(), one attempt of an activity together with what the retry policy   *)
(* of its execute_activity call does with the attempt's outcome, one       *)
(* delivery of the signal, one query, or one API request.                  *)
(***************************************************************************)
EXTENDS Integers, Sequences, FiniteSets

\* ---------------------------------------------------------------- bounds
\* The workflow objects of the model.
Inst == {"w1", "w2"}
\* Subscriptions a request can name: 1..NumSubs.
NumSubs == 2
\* Attempts of an activity with the default (unlimited) retry policy are
\* counted up to this number; beyond it the count alternates between the
\* last two values, so that every retry remains a step of the model.
MaxTrackedAttempts == 4
\* The retry policy's delay is looked at for the retries 1..MaxRetryIndex
\* (2^9 s is the first delay above the 300 s cap).
MaxRetryIndex == 12

\* ------------------------------------------------------- program constants
\* RetryPolicy(initial_interval=timedelta(seconds=1), ...), in seconds
InitialInterval == 1
\* maximum_interval=timedelta(minutes=5), in seconds
MaximumInterval == 300
\* maximum_attempts=3
MaximumAttempts == 3
\* backoff_coefficient is not passed: RetryPolicy's default
BackoffCoefficient == 2

None == "None"
\* Codes a signal can carry ("" is a string, and `"" is not None`).
Codes == {"482913", "739154", ""}

Subs == 1..NumSubs

\* request: the dict handed to run().  has_user_id tells whether it has the
\* key "user_id", which run() reads as request["user_id"] (line 75) and the
\* activity as request.get("user_id").  params_ok stands for
\* all([service_name, login_url, email, password]) being true.
Requests == [subscription_id : Subs, params_ok : BOOLEAN, has_user_id : BOOLEAN]
NoRequest == [subscription_id |-> 0, params_ok |-> FALSE, has_user_id |-> FALSE]

TerminalStatus == {"COMPLETED", "FAILED", "TIMEOUT"}

\* What a call of cancel_subscription can do.  Inside the try block
\* (agent.run / browser.screenshot): finish, raise with a text that names
\* 2FA, raise with another text, or raise with the empty text (Exception(),
\* asyncio.TimeoutError()).  Outside the try block: the Browser constructor
\* raises, the Agent constructor raises, or browser.close() raises in the
\* finally clause.
AgentOutcomes ==
    {"ok", "raise_2FA", "raise_other", "raise_empty",
     "raise_Browser", "raise_Agent", "raise_close"}

\* A screenshot_url is a tuple: the parts of the URL, or one of these two.
\* UrlNone is Python's None, UrlAbsent a key the dict does not have.
UrlNone == <<"None">>
UrlAbsent == <<"absent">>

\* A dict returned by an activity; session_id 0 and message "absent" stand
\* for a key the dict does not have ("" is a message that is empty).
NoResult == [status |-> "NONE", session_id |-> 0, message |-> "absent"]
\* The dict returned by run(); "absent" stands for a key it does not have.
NoReturn ==
    [status |-> "NONE", reason |-> "absent", message |-> "absent",
     screenshot_url |-> UrlAbsent, proofMissing |-> "absent"]

VARIABLES
    pc,          \* where run() of each instance stands
    status,      \* self.status
    two_fa_code, \* self.two_fa_code
    request,     \* the argument of run()
    result,      \* the local `result` of run()
    proof,       \* the local `proof` of run(): its screenshot_url
    returned,    \* the value run() returned
    attempt,     \* attempts made of the activity in flight
    delays,      \* backoff delays waited before the retries of the begin step
    inject_input,\* the inputs of the inject_2fa_code invocations, in order
    invoked,     \* execute_activity calls made, in order
    agent_calls, \* times cancel_subscription ran
    start_log,   \* outcome of every attempt of the begin step
    in_flight,   \* activities run() has scheduled and that have not ended
    agent_io,    \* a call of cancel_subscription: what happens in it, what it gives
    plaid,       \* a call of PlaidClient.get_transactions
    detect_io,   \* a call of PlaidClient.detect_subscriptions: argument and result
    api          \* the last API response

vars == <<pc, status, two_fa_code, request, result, proof, returned, attempt,
          delays, inject_input, invoked, agent_calls, start_log, in_flight,
          agent_io, plaid, detect_io, api>>

\* The variables of the calls outside the workflow.
lib_vars == <<agent_io, plaid, detect_io>>

\* The variables of the workflows and of the API.
workflow_vars ==
    <<pc, status, two_fa_code, request, result, proof, returned, attempt, delays,
      inject_input, invoked, agent_calls, start_log, in_flight, api>>

Min(a, b) == IF a < b THEN a ELSE b

RECURSIVE Pow(_, _)
Pow(b, e) == IF e = 0 THEN 1 ELSE b * Pow(b, e - 1)

\* ------------------------------------------------------------ retry policy
\* RetryDelay without the backoff: every retry waits the initial interval.
RetryDelayNoBackoff(k) == Min(InitialInterval, MaximumInterval)

\* The delay Temporal waits before retry k (after the k-th failed attempt)
\* under the policy of the begin step.
RetryDelay(k) == Min(InitialInterval * Pow(BackoffCoefficient, k - 1), MaximumInterval)

\* The attempt counter of an activity under the default policy.
NextTracked(n) == IF n < MaxTrackedAttempts THEN n + 1 ELSE MaxTrackedAttempts - 1

\* -------------------------------------------------------------- activities
\* agent/browser_agent.py cancel_subscription: the outcome is decided by
\* whether the agent run raised and by the text of the exception.  text is
\* the "message" or the "error" of the dict returned ("absent": neither key),
\* or the text of the exception that left the call.
cancel_subscription(o) ==
    CASE o = "ok" -> [status |-> "SUCCESS", text |-> "absent"]
      [] o = "raise_2FA" -> [status |-> "2FA_REQUIRED", text |-> "User needs to provide verification code"]
      [] o = "raise_other" -> [status |-> "FAILED", text |-> "net::ERR_CONNECTION_RESET"]
      [] o = "raise_empty" -> [status |-> "FAILED", text |-> ""]
      [] OTHER -> [status |-> "RAISED", text |-> "browser error"]

\* start_cancellation without the check of the required parameters.
start_cancellationUnvalidated(req, o, sid) ==
    LET r == cancel_subscription(o) IN
    CASE r.status = "RAISED" ->
           [status |-> "FAILED", session_id |-> 0, message |-> "Exception occurred: browser error"]
      [] r.status = "2FA_REQUIRED" ->
           [status |-> "2FA_REQUIRED", session_id |-> sid, message |-> r.text]
      [] r.status = "SUCCESS" ->
           [status |-> "SUCCESS", session_id |-> sid, message |-> "absent"]
      [] OTHER ->
           [status |-> "FAILED", session_id |-> 0, message |-> r.text]

\* activities/browser_activities.py start_cancellation; sid is the session
\* id the call generates.
start_cancellation(req, o, sid) ==
    IF ~req.params_ok
    THEN [status |-> "FAILED", session_id |-> 0,
          message |-> "Missing required parameters: service_name, login_url, email, password"]
    ELSE LET r == cancel_subscription(o) IN
         CASE r.status = "RAISED" ->
                [status |-> "FAILED", session_id |-> 0, message |-> "Exception occurred: browser error"]
           [] r.status = "2FA_REQUIRED" ->
                [status |-> "2FA_REQUIRED", session_id |-> sid, message |-> r.text]
           [] r.status = "SUCCESS" ->
                [status |-> "SUCCESS", session_id |-> sid, message |-> "absent"]
           [] OTHER ->
                [status |-> "FAILED", session_id |-> 0, message |-> r.text]

\* inject_2fa_code answering with a session id of its own.
inject_2fa_codeNewSession(in, o) ==
    IF in.session_id = 0 \/ in.code = "" \/ in.code = None
    THEN [status |-> "FAILED", session_id |-> 0, message |-> "Missing required parameters: session_id, code"]
    ELSE IF o = "raise"
    THEN [status |-> "FAILED", session_id |-> 0, message |-> "Failed to inject 2FA code"]
    ELSE [status |-> "SUCCESS", session_id |-> in.session_id + 1,
          message |-> "2FA code verified and cancellation continued"]

\* agent/browser_agent.py cancel_subscription: the states the browser can be
\* in once an attempt with outcome o is over.  The Browser is made before
\* the try block (line 42) and closed in its finally clause (line 97): it is
\* closed when the finally clause ran to its end, open when Agent(...) or
\* browser.close() raised, and there is none when Browser(...) raised or the
\* parameters were missing.  An attempt that outlasts start_to_close_timeout
\* has the browser open when the timeout passes; afterwards the call is left
\* to finish or cancelled at agent.run (closed), or cancelled at
\* browser.close() (open).
BrowserAfterAttempt(o) ==
    CASE o \in {"ok", "raise_2FA", "raise_other", "raise_empty"} -> {"closed"}
      [] o \in {"raise_Agent", "raise_close"} -> {"open"}
      [] o = "timeout" -> {"open", "closed"}
      [] OTHER -> {"none"}

\* activities/browser_activities.py inject_2fa_code
inject_2fa_code(in, o) ==
    IF in.session_id = 0 \/ in.code = "" \/ in.code = None
    THEN [status |-> "FAILED", session_id |-> 0, message |-> "Missing required parameters: session_id, code"]
    ELSE IF o = "raise"
    THEN [status |-> "FAILED", session_id |-> 0, message |-> "Failed to inject 2FA code"]
    ELSE [status |-> "SUCCESS", session_id |-> in.session_id,
          message |-> "2FA code verified and cancellation continued"]

\* activities/browser_activities.py capture_proof: the screenshot_url of the
\* dict it returns.
capture_proof(sid, o) ==
    IF sid = 0 \/ o = "raise" THEN UrlNone ELSE <<"https://storage.supabase.co/proof", sid, "screenshot.png">>

\* ---------------------------------------------------------------- workflow
\* CancellationWorkflow.__init__
WorkflowInit(i, req) ==
    /\ pc[i] = "none"
    /\ pc' = [pc EXCEPT ![i] = "init"]
    /\ status' = [status EXCEPT ![i] = "PENDING"]
    /\ two_fa_code' = [two_fa_code EXCEPT ![i] = None]
    /\ request' = [request EXCEPT ![i] = req]
    /\ UNCHANGED <<result, proof, returned, attempt, delays, inject_input, invoked,
                   agent_calls, start_log, in_flight, api>>
    /\ UNCHANGED lib_vars

\* provide_2fa_code moving the workflow on by itself.
provide_2fa_codeSetsStatus(i, code) ==
    /\ pc[i] \notin {"none", "done", "raised"}
    /\ two_fa_code' = [two_fa_code EXCEPT ![i] = code]
    /\ status' = [status EXCEPT ![i] = "VERIFYING_2FA"]
    /\ UNCHANGED <<pc, request, result, proof, returned, attempt, delays,
                   inject_input, invoked, agent_calls, start_log, in_flight, api>>
    /\ UNCHANGED lib_vars

\* provide_2fa_code storing the code in a field all workflows share.
provide_2fa_codeShared(i, code) ==
    /\ pc[i] \notin {"none", "done", "raised"}
    /\ two_fa_code' = [j \in Inst |-> IF pc[j] # "none" THEN code ELSE two_fa_code[j]]
    /\ UNCHANGED <<pc, status, request, result, proof, returned, attempt, delays,
                   inject_input, invoked, agent_calls, start_log, in_flight, api>>
    /\ UNCHANGED lib_vars

\* The signal handler (lines 29-32).  Temporal runs it on a workflow that is
\* open: one that has been started and whose run() has not ended.
provide_2fa_code(i, code) ==
    /\ pc[i] \notin {"none", "done", "raised"}
    /\ two_fa_code' = [two_fa_code EXCEPT ![i] = code]
    /\ UNCHANGED <<pc, status, request, result, proof, returned, attempt, delays,
                   inject_input, invoked, agent_calls, start_log, in_flight, api>>
    /\ UNCHANGED lib_vars

\* get_status taking the pending code as it answers.
get_statusConsumesCode(i) ==
    /\ pc[i] # "none"
    /\ api' = [op |-> "get_status", response |-> status[i], had_active |-> FALSE, was_awaiting |-> FALSE]
    /\ two_fa_code' = [two_fa_code EXCEPT ![i] = None]
    /\ UNCHANGED <<pc, status, request, result, proof, returned, attempt,
                   delays, inject_input, invoked, agent_calls, start_log, in_flight>>
    /\ UNCHANGED lib_vars

\* The query handler.
get_status(i) ==
    /\ pc[i] # "none"
    /\ api' = [op |-> "get_status", response |-> status[i], had_active |-> FALSE, was_awaiting |-> FALSE]
    /\ UNCHANGED <<pc, status, two_fa_code, request, result, proof, returned, attempt,
                   delays, inject_input, invoked, agent_calls, start_log, in_flight>>
    /\ UNCHANGED lib_vars

\* run(), line 50
RunStarting(i) ==
    /\ pc[i] = "init"
    /\ status' = [status EXCEPT ![i] = "STARTING"]
    /\ pc' = [pc EXCEPT ![i] = "starting"]
    /\ UNCHANGED <<two_fa_code, request, result, proof, returned, attempt, delays,
                   inject_input, invoked, agent_calls, start_log, in_flight, api>>
    /\ UNCHANGED lib_vars

\* RunNavigating with line 59 (self.status = "NAVIGATING") left out.
RunNavigatingKeepsStatus(i) ==
    /\ pc[i] = "starting"
    /\ invoked' = [invoked EXCEPT ![i] = Append(@, "start_cancellation")]
    /\ in_flight' = [in_flight EXCEPT ![i] = @ \cup {"start_cancellation"}]
    /\ attempt' = [attempt EXCEPT ![i] = 0]
    /\ pc' = [pc EXCEPT ![i] = "act_start"]
    /\ UNCHANGED <<status, two_fa_code, request, result, proof, returned, delays,
                   inject_input, agent_calls, start_log, api>>
    /\ UNCHANGED lib_vars

\* run(), lines 52-65: up to the await of the begin step
RunNavigating(i) ==
    /\ pc[i] = "starting"
    /\ status' = [status EXCEPT ![i] = "NAVIGATING"]
    /\ invoked' = [invoked EXCEPT ![i] = Append(@, "start_cancellation")]
    /\ in_flight' = [in_flight EXCEPT ![i] = @ \cup {"start_cancellation"}]
    /\ attempt' = [attempt EXCEPT ![i] = 0]
    /\ pc' = [pc EXCEPT ![i] = "act_start"]
    /\ UNCHANGED <<two_fa_code, request, result, proof, returned, delays,
                   inject_input, agent_calls, start_log, api>>
    /\ UNCHANGED lib_vars

\* One attempt of start_cancellation under retry_policy: it returns a dict
\* (which ends the activity, whatever its "status"), or it runs into
\* start_to_close_timeout and is retried until maximum_attempts is reached,
\* when execute_activity raises ActivityError into run().  Only the agent run
\* can outlast the timeout: with a parameter missing the activity returns
\* before its first await.
StartAttempt(i, o) ==
    /\ pc[i] = "act_start"
    /\ o = "timeout" => request[i].params_ok
    /\ LET n == attempt[i] + 1 IN
       /\ attempt' = [attempt EXCEPT ![i] = n]
       /\ agent_calls' = [agent_calls EXCEPT ![i] = IF request[i].params_ok THEN @ + 1 ELSE @]
       /\ IF o = "timeout"
          THEN /\ start_log' = [start_log EXCEPT ![i] = Append(@, "timeout")]
               /\ result' = result
               /\ IF n < MaximumAttempts
                  THEN /\ delays' = [delays EXCEPT ![i] = Append(@, RetryDelay(n))]
                       /\ pc' = pc
                       /\ in_flight' = in_flight
                  ELSE /\ delays' = delays
                       /\ pc' = [pc EXCEPT ![i] = "raised"]
                       /\ in_flight' = [in_flight EXCEPT ![i] = @ \ {"start_cancellation"}]
          ELSE /\ start_log' = [start_log EXCEPT ![i] =
                                  Append(@, IF request[i].params_ok THEN o ELSE "missing_params")]
               /\ result' = [result EXCEPT ![i] = start_cancellation(request[i], o, n)]
               /\ delays' = delays
               /\ pc' = [pc EXCEPT ![i] = "step2"]
               /\ in_flight' = [in_flight EXCEPT ![i] = @ \ {"start_cancellation"}]
    /\ UNCHANGED <<status, two_fa_code, request, proof, returned, inject_input, invoked, api>>
    /\ UNCHANGED lib_vars

\* run(), line 90: the dict returned when the wait for the code times out
TimeoutReturn ==
    [status |-> "FAILED", reason |-> "2FA code not provided in time",
     message |-> "absent", screenshot_url |-> UrlAbsent, proofMissing |-> "absent"]

\* run(), line 122: `return result`, the dict of the failed activity
FailedReturn(r) ==
    [status |-> r.status, reason |-> "absent", message |-> r.message,
     screenshot_url |-> UrlAbsent, proofMissing |-> "absent"]

\* run(), lines 113-119: the dict returned after capture_proof.  It has the
\* keys status, screenshot_url, video_url, savings_per_year and cancelled_at,
\* whatever the proof holds: no key tells a missing proof.
SuccessReturn(p) ==
    [status |-> "SUCCESS", reason |-> "absent", message |-> "absent",
     screenshot_url |-> p, proofMissing |-> "absent"]

\* Step4Status asking for another code when the result is not SUCCESS.
Step4StatusReprompts(r) == IF r.status = "SUCCESS" THEN "CAPTURING_PROOF" ELSE "AWAITING_2FA"

\* Step4Status skipping CAPTURING_PROOF.
Step4StatusSkipsProof(r) == IF r.status = "SUCCESS" THEN "COMPLETED" ELSE "FAILED"

\* run(), lines 104-105 and 121: the status set once `result` is final
Step4Status(r) == IF r.status = "SUCCESS" THEN "CAPTURING_PROOF" ELSE "FAILED"

\* run(), lines 103-110 and 121-122: with the SUCCESS result, up to the await
\* of capture_proof; with any other, to the end of run()
Step4(i) ==
    /\ status' = [status EXCEPT ![i] = Step4Status(result[i])]
    /\ IF result[i].status = "SUCCESS"
       THEN /\ invoked' = [invoked EXCEPT ![i] = Append(@, "capture_proof")]
            /\ in_flight' = [in_flight EXCEPT ![i] = @ \cup {"capture_proof"}]
            /\ attempt' = [attempt EXCEPT ![i] = 0]
            /\ pc' = [pc EXCEPT ![i] = "act_proof"]
            /\ returned' = returned
       ELSE /\ returned' = [returned EXCEPT ![i] = FailedReturn(result[i])]
            /\ pc' = [pc EXCEPT ![i] = "done"]
            /\ UNCHANGED <<invoked, attempt, in_flight>>

\* RunStep2 not awaiting send_push_notification: run() goes straight on to
\* wait_condition.
RunStep2FireAndForget(i) ==
    /\ pc[i] = "step2"
    /\ IF result[i].status = "2FA_REQUIRED"
       THEN /\ status' = [status EXCEPT ![i] = "AWAITING_2FA"]
            /\ IF request[i].has_user_id
               THEN /\ invoked' = [invoked EXCEPT ![i] = Append(@, "send_push_notification")]
                    /\ in_flight' = [in_flight EXCEPT ![i] = @ \cup {"send_push_notification"}]
                    /\ attempt' = [attempt EXCEPT ![i] = 0]
                    /\ pc' = [pc EXCEPT ![i] = "wait"]
               ELSE /\ pc' = [pc EXCEPT ![i] = "raised"]
                    /\ UNCHANGED <<invoked, in_flight, attempt>>
            /\ returned' = returned
       ELSE Step4(i)
    /\ UNCHANGED <<two_fa_code, request, result, proof, delays, inject_input,
                   agent_calls, start_log, api>>
    /\ UNCHANGED lib_vars

\* run(), lines 67-80 (the begin step asked for 2FA: up to the await of
\* send_push_notification), or the rest of run() from line 103.  The
\* argument of send_push_notification is built from request["user_id"]
\* (line 75) after the status is set (line 69): without the key the
\* KeyError leaves run() before the activity is scheduled.
RunStep2(i) ==
    /\ pc[i] = "step2"
    /\ IF result[i].status = "2FA_REQUIRED"
       THEN /\ status' = [status EXCEPT ![i] = "AWAITING_2FA"]
            /\ IF request[i].has_user_id
               THEN /\ invoked' = [invoked EXCEPT ![i] = Append(@, "send_push_notification")]
                    /\ in_flight' = [in_flight EXCEPT ![i] = @ \cup {"send_push_notification"}]
                    /\ attempt' = [attempt EXCEPT ![i] = 0]
                    /\ pc' = [pc EXCEPT ![i] = "act_push"]
               ELSE /\ pc' = [pc EXCEPT ![i] = "raised"]
                    /\ UNCHANGED <<invoked, in_flight, attempt>>
            /\ returned' = returned
       ELSE Step4(i)
    /\ UNCHANGED <<two_fa_code, request, result, proof, delays, inject_input,
                   agent_calls, start_log, api>>
    /\ UNCHANGED lib_vars

\* One attempt of send_push_notification under the default retry policy
\* (no retry_policy is passed: unlimited attempts).  The dict it returns is
\* not looked at; run() goes on to wait_condition (lines 83-87).
PushAttempt(i, o) ==
    /\ pc[i] = "act_push"
    /\ attempt' = [attempt EXCEPT ![i] = NextTracked(@)]
    /\ pc' = [pc EXCEPT ![i] = IF o = "timeout" THEN "act_push" ELSE "wait"]
    /\ in_flight' = [in_flight EXCEPT ![i] =
                        IF o = "timeout" THEN @ ELSE @ \ {"send_push_notification"}]
    /\ UNCHANGED <<status, two_fa_code, request, result, proof, returned, delays,
                   inject_input, invoked, agent_calls, start_log, api>>
    /\ UNCHANGED lib_vars

\* run(), lines 84-101: wait_condition finds two_fa_code set; up to the
\* await of inject_2fa_code
WaitResume(i) ==
    /\ pc[i] = "wait"
    /\ two_fa_code[i] # None
    /\ status' = [status EXCEPT ![i] = "VERIFYING_2FA"]
    /\ inject_input' = [inject_input EXCEPT ![i] =
            Append(@, [session_id |-> result[i].session_id, code |-> two_fa_code[i]])]
    /\ invoked' = [invoked EXCEPT ![i] = Append(@, "inject_2fa_code")]
    /\ in_flight' = [in_flight EXCEPT ![i] = @ \cup {"inject_2fa_code"}]
    /\ attempt' = [attempt EXCEPT ![i] = 0]
    /\ pc' = [pc EXCEPT ![i] = "act_inject"]
    /\ UNCHANGED <<two_fa_code, request, result, proof, returned, delays,
                   agent_calls, start_log, api>>
    /\ UNCHANGED lib_vars

\* WaitTimeout without the `return` of line 90: the except clause sets the
\* status and run() waits for the code again.
WaitTimeoutKeepsWaiting(i) ==
    /\ pc[i] = "wait"
    /\ two_fa_code[i] = None
    /\ status[i] # "TIMEOUT"
    /\ status' = [status EXCEPT ![i] = "TIMEOUT"]
    /\ UNCHANGED <<pc, returned, two_fa_code, request, result, proof, attempt, delays,
                   inject_input, invoked, agent_calls, start_log, in_flight, api>>
    /\ UNCHANGED lib_vars

\* run(), lines 88-90: the 10 minutes of wait_condition pass without a code
WaitTimeout(i) ==
    /\ pc[i] = "wait"
    /\ two_fa_code[i] = None
    /\ status' = [status EXCEPT ![i] = "TIMEOUT"]
    /\ returned' = [returned EXCEPT ![i] = TimeoutReturn]
    /\ pc' = [pc EXCEPT ![i] = "done"]
    /\ UNCHANGED <<two_fa_code, request, result, proof, attempt, delays,
                   inject_input, invoked, agent_calls, start_log, in_flight, api>>
    /\ UNCHANGED lib_vars

\* One attempt of inject_2fa_code under the default retry policy.
InjectAttempt(i, o) ==
    /\ pc[i] = "act_inject"
    /\ attempt' = [attempt EXCEPT ![i] = NextTracked(@)]
    /\ IF o = "timeout"
       THEN UNCHANGED <<pc, result, in_flight>>
       ELSE /\ result' = [result EXCEPT ![i] =
                    inject_2fa_code(inject_input[i][Len(inject_input[i])], o)]
            /\ pc' = [pc EXCEPT ![i] = "step4"]
            /\ in_flight' = [in_flight EXCEPT ![i] = @ \ {"inject_2fa_code"}]
    /\ UNCHANGED <<status, two_fa_code, request, proof, returned, delays,
                   inject_input, invoked, agent_calls, start_log, api>>
    /\ UNCHANGED lib_vars

\* run(), from line 103, after inject_2fa_code
RunStep4(i) ==
    /\ pc[i] = "step4"
    /\ Step4(i)
    /\ UNCHANGED <<two_fa_code, request, result, proof, delays, inject_input,
                   agent_calls, start_log, api>>
    /\ UNCHANGED lib_vars

\* One attempt of capture_proof under the default retry policy.
ProofAttempt(i, o) ==
    /\ pc[i] = "act_proof"
    /\ attempt' = [attempt EXCEPT ![i] = NextTracked(@)]
    /\ IF o = "timeout"
       THEN UNCHANGED <<pc, proof, in_flight>>
       ELSE /\ proof' = [proof EXCEPT ![i] = capture_proof(result[i].session_id, o)]
            /\ pc' = [pc EXCEPT ![i] = "finish"]
            /\ in_flight' = [in_flight EXCEPT ![i] = @ \ {"capture_proof"}]
    /\ UNCHANGED <<status, two_fa_code, request, result, returned, delays,
                   inject_input, invoked, agent_calls, start_log, api>>
    /\ UNCHANGED lib_vars

\* run(), lines 112-119
RunCompleted(i) ==
    /\ pc[i] = "finish"
    /\ status' = [status EXCEPT ![i] = "COMPLETED"]
    /\ returned' = [returned EXCEPT ![i] = SuccessReturn(proof[i])]
    /\ pc' = [pc EXCEPT ![i] = "done"]
    /\ UNCHANGED <<two_fa_code, request, result, proof, attempt, delays,
                   inject_input, invoked, agent_calls, start_log, in_flight, api>>
    /\ UNCHANGED lib_vars

\* --------------------------------------------------------------------- API
\* backend/api/cancellations.py CancellationStatus: the statuses the API
\* documents.
CancellationStatus ==
    {"PENDING", "STARTING", "NAVIGATING", "AWAITING_2FA", "VERIFYING_2FA",
     "CAPTURING_PROOF", "COMPLETED", "FAILED"}

\* Whether a workflow for the subscription exists whose status is not final.
HasActive(sub) ==
    \E i \in Inst : /\ pc[i] # "none"
                    /\ request[i].subscription_id = sub
                    /\ status[i] \notin TerminalStatus

\* backend/api/cancellations.py start_cancellation: POST /cancellations.
\* owner: request.user_id == current_user["user_id"].
api_start_cancellation(sub, owner) ==
    /\ api' = [op |-> "start_cancellation",
               response |-> IF owner THEN "PENDING" ELSE "403 Not authorized",
               had_active |-> HasActive(sub), was_awaiting |-> FALSE]
    /\ UNCHANGED <<pc, status, two_fa_code, request, result, proof, returned, attempt,
                   delays, inject_input, invoked, agent_calls, start_log, in_flight>>
    /\ UNCHANGED lib_vars

\* backend/api/cancellations.py TwoFactorCode:
\* code: str = Field(..., min_length=4, max_length=8)
MinCodeLength == 4
MaxCodeLength == 8
TwoFactorCode(code) == Len(code) >= MinCodeLength /\ Len(code) <= MaxCodeLength

\* backend/api/cancellations.py submit_2fa_code: POST /cancellations/{id}/2fa
\* with the id of workflow i.  A body that is not a TwoFactorCode is answered
\* 422 before the function runs.
api_submit_2fa_code(i, code) ==
    /\ api' = [op |-> "submit_2fa_code",
               response |-> IF TwoFactorCode(code) THEN "success" ELSE "422 Unprocessable Entity",
               had_active |-> FALSE,
               was_awaiting |-> status[i] = "AWAITING_2FA"]
    /\ UNCHANGED <<pc, status, two_fa_code, request, result, proof, returned, attempt,
                   delays, inject_input, invoked, agent_calls, start_log, in_flight>>
    /\ UNCHANGED lib_vars

\* ----------------------------------------------------------- specification
\* No call is being made.
NoCall == [pc |-> "none"]

\* api: the last response; had_active and was_awaiting record what held of
\* the request's target when it was served.
NoApi == [op |-> "none", response |-> "none", had_active |-> FALSE, was_awaiting |-> FALSE]

Init ==
    /\ pc = [i \in Inst |-> "none"]
    /\ status = [i \in Inst |-> "NONE"]
    /\ two_fa_code = [i \in Inst |-> None]
    /\ request = [i \in Inst |-> NoRequest]
    /\ result = [i \in Inst |-> NoResult]
    /\ proof = [i \in Inst |-> UrlNone]
    /\ returned = [i \in Inst |-> NoReturn]
    /\ attempt = [i \in Inst |-> 0]
    /\ delays = [i \in Inst |-> <<>>]
    /\ inject_input = [i \in Inst |-> <<>>]
    /\ invoked = [i \in Inst |-> <<>>]
    /\ agent_calls = [i \in Inst |-> 0]
    /\ start_log = [i \in Inst |-> <<>>]
    /\ in_flight = [i \in Inst |-> {}]
    /\ api = NoApi
    /\ agent_io = NoCall
    /\ plaid = NoCall
    /\ detect_io = NoCall

\* The steps of one workflow: its run() and the attempts of its activities.
Flow(i) ==
    \/ RunStarting(i)
    \/ RunNavigating(i)
    \/ \E o \in AgentOutcomes \cup {"timeout"} : StartAttempt(i, o)
    \/ RunStep2(i)
    \/ \E o \in {"SUCCESS", "FAILED", "timeout"} : PushAttempt(i, o)
    \/ WaitResume(i)
    \/ WaitTimeout(i)
    \/ \E o \in {"ok", "raise", "timeout"} : InjectAttempt(i, o)
    \/ RunStep4(i)
    \/ \E o \in {"ok", "raise", "timeout"} : ProofAttempt(i, o)
    \/ RunCompleted(i)

\* What reaches a workflow from outside.
Env(i) ==
    \/ \E req \in Requests : WorkflowInit(i, req)
    \/ \E code \in Codes : provide_2fa_code(i, code)
    \/ get_status(i)
    \/ \E code \in Codes : api_submit_2fa_code(i, code)

\* One workflow, with every outcome of every attempt, every signal, the
\* query and the API.
Next ==
    \/ Flow("w1")
    \/ Env("w1")
    \/ \E sub \in Subs, owner \in BOOLEAN : api_start_cancellation(sub, owner)

Spec == Init /\ [][Next]_vars

\* Two workflows side by side.  Every attempt of an activity returns (no
\* attempt runs into its timeout) and signals carry one of two codes.
FlowLite(i) ==
    \/ RunStarting(i)
    \/ RunNavigating(i)
    \/ \E o \in AgentOutcomes : StartAttempt(i, o)
    \/ RunStep2(i)
    \/ PushAttempt(i, "SUCCESS")
    \/ WaitResume(i)
    \/ WaitTimeout(i)
    \/ \E o \in {"ok", "raise"} : InjectAttempt(i, o)
    \/ RunStep4(i)
    \/ \E o \in {"ok", "raise"} : ProofAttempt(i, o)
    \/ RunCompleted(i)

NextTwo ==
    \/ \E i \in Inst : FlowLite(i)
    \/ \E i \in Inst, req \in Requests : WorkflowInit(i, req)
    \/ \E i \in Inst, code \in {"482913", "739154"} : provide_2fa_code(i, code)
    \/ \E sub \in Subs, owner \in BOOLEAN : api_start_cancellation(sub, owner)

SpecTwo == Init /\ [][NextTwo]_vars

\* The code the user of workflow i is sent: each workflow has its own.
CodeFor(i) == IF i = "w1" THEN "482913" ELSE "739154"

\* Two workflows side by side, each signalled its own code only.
NextIsolated ==
    \/ \E i \in Inst : FlowLite(i)
    \/ \E i \in Inst, req \in Requests : WorkflowInit(i, req)
    \/ \E i \in Inst : provide_2fa_code(i, CodeFor(i))

SpecIsolated == Init /\ [][NextIsolated]_vars

\* The workflow's steps are taken as long as they can be: Temporal runs a
\* workflow task when one is due, starts every scheduled attempt and fires
\* every timer.
FairSpec == Spec /\ WF_vars(Flow("w1"))

\* ------------------------------------------------------- cancel_subscription
\* Words an exception text is made of; a text is a sequence of characters.
MaxWords == 2

Words ==
    {<<"2", "F", "A">>,
     <<"2", "f", "a">>,
     <<"v", "e", "r", "i", "f", "i", "c", "a", "t", "i", "o", "n">>,
     <<"V", "e", "r", "i", "f", "i", "c", "a", "t", "i", "o", "n">>,
     <<"V", "E", "R", "I", "F", "I", "C", "A", "T", "I", "O", "N">>,
     <<"c", "o", "d", "e">>,
     <<"t", "i", "m", "e", "o", "u", "t">>,
     <<"e", "r", "r", "o", "r">>}

RECURSIVE TextsOf(_)
TextsOf(n) ==
    IF n = 1 THEN Words
    ELSE TextsOf(n - 1) \cup {t \o <<" ">> \o w : t \in TextsOf(n - 1), w \in Words}

Texts == TextsOf(MaxWords)

\* str.lower() on the letters of the words.
UpperLetters == <<"A", "C", "E", "F", "I", "N", "O", "R", "T", "V">>
LowerLetters == <<"a", "c", "e", "f", "i", "n", "o", "r", "t", "v">>

LowerChar(c) ==
    IF \E k \in 1..Len(UpperLetters) : UpperLetters[k] = c
    THEN LowerLetters[CHOOSE k \in 1..Len(UpperLetters) : UpperLetters[k] = c]
    ELSE c

Lower(t) == [k \in 1..Len(t) |-> LowerChar(t[k])]

\* `sub in t` of Python strings.
Contains(t, sub) ==
    \E k \in 0..(Len(t) - Len(sub)) : \A j \in 1..Len(sub) : t[k + j] = sub[j]

\* The texts of the exceptions of the cases: those made of the words, and
\* the empty text of Exception() and asyncio.TimeoutError().
ExceptionTexts == Texts \cup {<<>>}

\* What can happen in a call.  stage names the first step that does not
\* go through ("none": every one does): Browser(...) (line 42), Agent(...)
\* (lines 62-67), agent.run (line 70), browser.screenshot (line 74).  kind
\* tells whether it raises an Exception with the text, or whether the task
\* is cancelled while it is suspended there (a CancelledError, which is not
\* an Exception); only the awaits can be cancelled.  close tells the same of
\* browser.close() in the finally clause (line 97), which the constructors
\* do not reach.
AgentCases ==
    {[stage |-> "none", kind |-> "none", text |-> <<>>, close |-> c] :
        c \in {"ok", "raise", "cancel"}}
    \cup [stage : {"Browser", "Agent"}, kind : {"raise"},
          text : {<<"e", "r", "r", "o", "r">>}, close : {"ok"}]
    \cup [stage : {"run", "screenshot"}, kind : {"raise"}, text : ExceptionTexts,
          close : {"ok", "raise", "cancel"}]
    \cup [stage : {"run", "screenshot"}, kind : {"cancel"}, text : {<<>>},
          close : {"ok", "raise", "cancel"}]

\* agent/browser_agent.py cancel_subscription, lines 84-95: the status of
\* the dict the except clause returns for an exception with the text.
ExceptStatus(text) ==
    IF Contains(text, <<"2", "F", "A">>)
       \/ Contains(Lower(text), <<"v", "e", "r", "i", "f", "i", "c", "a", "t", "i", "o", "n">>)
    THEN "2FA_REQUIRED"
    ELSE "FAILED"

\* What leaves the try block when the step of case c at which the call
\* stands does not go through: the dict of the except clause, or the
\* CancelledError ("RAISED").
TryOutcome(c) == IF c.kind = "cancel" THEN "RAISED" ELSE ExceptStatus(c.text)

\* The workflows and the API before anything has happened.
WorkflowIdle ==
    /\ pc = [i \in Inst |-> "none"]
    /\ status = [i \in Inst |-> "NONE"]
    /\ two_fa_code = [i \in Inst |-> None]
    /\ request = [i \in Inst |-> NoRequest]
    /\ result = [i \in Inst |-> NoResult]
    /\ proof = [i \in Inst |-> UrlNone]
    /\ returned = [i \in Inst |-> NoReturn]
    /\ attempt = [i \in Inst |-> 0]
    /\ delays = [i \in Inst |-> <<>>]
    /\ inject_input = [i \in Inst |-> <<>>]
    /\ invoked = [i \in Inst |-> <<>>]
    /\ agent_calls = [i \in Inst |-> 0]
    /\ start_log = [i \in Inst |-> <<>>]
    /\ in_flight = [i \in Inst |-> {}]
    /\ api = NoApi

\* A call of cancel_subscription with any of the cases.  out.status is the
\* status of the dict the call is to return ("NONE": not decided yet,
\* "RAISED": an exception is to leave it), out.browser the browser as it is.
InitAgent ==
    /\ WorkflowIdle
    /\ agent_io \in {[pc |-> "called", case |-> c, out |-> [status |-> "NONE", browser |-> "none"]] :
                       c \in AgentCases}
    /\ plaid = NoCall
    /\ detect_io = NoCall

\* cancel_subscription, lines 42-70: the Browser and the Agent are made,
\* outside the try block, and the call is suspended at agent.run.
AgentConstruct ==
    /\ agent_io.pc = "called"
    /\ agent_io' =
          CASE agent_io.case.stage = "Browser" ->
                 [agent_io EXCEPT !.pc = "returned", !.out = [status |-> "RAISED", browser |-> "none"]]
            [] agent_io.case.stage = "Agent" ->
                 [agent_io EXCEPT !.pc = "returned", !.out = [status |-> "RAISED", browser |-> "open"]]
            [] OTHER ->
                 [agent_io EXCEPT !.pc = "run", !.out.browser = "open"]
    /\ UNCHANGED <<workflow_vars, plaid, detect_io>>

\* cancel_subscription, lines 70-74: agent.run is over; the call goes on to
\* browser.screenshot and is suspended there, or to the except clause when
\* agent.run raised, and from either to browser.close().
AgentRun ==
    /\ agent_io.pc = "run"
    /\ agent_io' =
          IF agent_io.case.stage = "run"
          THEN [agent_io EXCEPT !.pc = "close", !.out.status = TryOutcome(agent_io.case)]
          ELSE [agent_io EXCEPT !.pc = "screenshot"]
    /\ UNCHANGED <<workflow_vars, plaid, detect_io>>

\* cancel_subscription, lines 74-97: browser.screenshot is over; the call
\* goes on to `return` or to the except clause, and is suspended at
\* browser.close() in the finally clause.
AgentScreenshot ==
    /\ agent_io.pc = "screenshot"
    /\ agent_io' =
          IF agent_io.case.stage = "screenshot"
          THEN [agent_io EXCEPT !.pc = "close", !.out.status = TryOutcome(agent_io.case)]
          ELSE [agent_io EXCEPT !.pc = "close", !.out.status = "SUCCESS"]
    /\ UNCHANGED <<workflow_vars, plaid, detect_io>>

\* cancel_subscription, line 97: browser.close() is over and the call ends.
\* An exception in the finally clause replaces what the call was to give
\* and leaves the browser open.
AgentClose ==
    /\ agent_io.pc = "close"
    /\ agent_io' =
          IF agent_io.case.close = "ok"
          THEN [agent_io EXCEPT !.pc = "returned", !.out.browser = "closed"]
          ELSE [agent_io EXCEPT !.pc = "returned", !.out.status = "RAISED"]
    /\ UNCHANGED <<workflow_vars, plaid, detect_io>>

NextAgent ==
    \/ AgentConstruct
    \/ AgentRun
    \/ AgentScreenshot
    \/ AgentClose

SpecAgent == InitAgent /\ [][NextAgent]_vars

\* ---------------------------------------------------------- get_transactions
\* A page of the Plaid API holds 0..MaxPage transactions and reports a
\* total_transactions of 0..MaxTotal.
MaxPage == 2
MaxTotal == 3

\* The responses of client.transactions_get: the number of transactions of
\* the page and total_transactions.
Responses == [transactions : 0..MaxPage, total_transactions : 0..MaxTotal]

\* A call of get_transactions about to make its first request.
InitPlaid ==
    /\ WorkflowIdle
    /\ plaid = [pc |-> "first", len |-> 0, total |-> 0, calls |-> 0, returned |-> 0]
    /\ agent_io = NoCall
    /\ detect_io = NoCall

\* lines 143-151: the first request and its page
PlaidFirstPage(resp) ==
    /\ plaid.pc = "first"
    /\ plaid' = [plaid EXCEPT !.pc = "loop", !.len = resp.transactions,
                              !.total = resp.total_transactions, !.calls = 1]
    /\ UNCHANGED <<workflow_vars, agent_io, detect_io>>

\* lines 154-157: one turn of the pagination loop; the total is read from
\* the latest response.
PlaidNextPage(resp) ==
    /\ plaid.pc = "loop"
    /\ plaid.len < plaid.total
    /\ plaid' = [plaid EXCEPT !.len = @ + resp.transactions,
                              !.total = resp.total_transactions,
                              !.calls = NextTracked(@)]
    /\ UNCHANGED <<workflow_vars, agent_io, detect_io>>

\* lines 154 and 159: the loop ends and every transaction is formatted
PlaidReturn ==
    /\ plaid.pc = "loop"
    /\ ~(plaid.len < plaid.total)
    /\ plaid' = [plaid EXCEPT !.pc = "returned", !.returned = plaid.len]
    /\ UNCHANGED <<workflow_vars, agent_io, detect_io>>

\* lines 161-162: a request raises plaid.ApiException
PlaidApiException ==
    /\ \/ plaid.pc = "first"
       \/ plaid.pc = "loop" /\ plaid.len < plaid.total
    /\ plaid' = [plaid EXCEPT !.pc = "raised"]
    /\ UNCHANGED <<workflow_vars, agent_io, detect_io>>

NextPlaid ==
    \/ \E resp \in Responses : PlaidFirstPage(resp)
    \/ \E resp \in Responses : PlaidNextPage(resp)
    \/ PlaidReturn
    \/ PlaidApiException

SpecPlaid == InitPlaid /\ [][NextPlaid]_vars

\* The call goes on as long as it can: every request is answered.
FairPlaid == SpecPlaid /\ WF_vars(NextPlaid)

\* ------------------------------------------------------- detect_subscriptions
\* The argument is a list of up to MaxTxns formatted transactions; a date is
\* the number of its day.  merchant_name is None when Plaid sends the key
\* with null: _format_transaction (line 170) falls back on the name only
\* when the key is missing.  The days are 25, 35 and 36 days after the
\* first, and 10, 11 and 1 apart.
MaxTxns == 3

Transactions ==
    [merchant_name : {"NETFLIX", "SPOTIFY", None}, amount : {10, 15}, date : {1, 26, 36, 37}]

RECURSIVE SeqsUpTo(_, _)
SeqsUpTo(S, n) ==
    IF n = 0 THEN {<<>>}
    ELSE SeqsUpTo(S, n - 1) \cup {Append(q, x) : q \in {p \in SeqsUpTo(S, n - 1) : Len(p) = n - 1}, x \in S}

\* lines 193-198: the keys of merchant_charges, in the order a dict keeps
\* them (first appearance)
RECURSIVE MerchantsOf(_)
MerchantsOf(txns) ==
    IF txns = <<>> THEN <<>>
    ELSE LET before == MerchantsOf(SubSeq(txns, 1, Len(txns) - 1))
             name == txns[Len(txns)].merchant_name
         IN IF \E k \in 1..Len(before) : before[k] = name THEN before ELSE Append(before, name)

\* lines 193-198: merchant_charges[merchant]
ChargesOf(txns, merchant) == SelectSeq(txns, LAMBDA t : t.merchant_name = merchant)

\* list.sort(key=date) puts a charge after those of the sorted list whose
\* date is not later (the sort is stable).
InsertByDate(sorted, c) ==
    LET n == Cardinality({k \in 1..Len(sorted) : sorted[k].date <= c.date})
    IN SubSeq(sorted, 1, n) \o <<c>> \o SubSeq(sorted, n + 1, Len(sorted))

\* line 208: charges.sort(key=lambda x: x['date'])
RECURSIVE SortByDate(_)
SortByDate(charges) ==
    IF charges = <<>> THEN <<>>
    ELSE InsertByDate(SortByDate(SubSeq(charges, 1, Len(charges) - 1)), charges[Len(charges)])

\* line 218: the days between consecutive charges
Intervals(charges) == [k \in 1..(Len(charges) - 1) |-> charges[k + 1].date - charges[k].date]

RECURSIVE SumSeq(_)
SumSeq(q) == IF q = <<>> THEN 0 ELSE q[Len(q)] + SumSeq(SubSeq(q, 1, Len(q) - 1))

\* lines 219-222: 25 <= sum(intervals) / len(intervals) <= 35, the average
\* being 0 without intervals
RoughlyMonthly(intervals) ==
    /\ Len(intervals) > 0
    /\ 25 * Len(intervals) <= SumSeq(intervals)
    /\ SumSeq(intervals) <= 35 * Len(intervals)

\* lines 202-231: whether the loop body appends the merchant
IsDetected(txns, merchant) ==
    LET charges == SortByDate(ChargesOf(txns, merchant))
        amounts == {charges[k].amount : k \in 1..Len(charges)}
    IN /\ Len(charges) >= 2
       /\ Cardinality(amounts) = 1
       /\ RoughlyMonthly(Intervals(charges))

\* lines 223-231: the dict appended for a merchant
Subscription(txns, merchant) ==
    LET charges == SortByDate(ChargesOf(txns, merchant))
    IN [merchant_name |-> merchant, monthly_price |-> charges[1].amount,
        last_charge_date |-> charges[Len(charges)].date, status |-> "active"]

\* PlaidClient.detect_subscriptions: the list it returns
RECURSIVE DetectOver(_, _)
DetectOver(txns, merchants) ==
    IF merchants = <<>> THEN <<>>
    ELSE LET rest == DetectOver(txns, SubSeq(merchants, 1, Len(merchants) - 1))
             merchant == merchants[Len(merchants)]
         IN IF IsDetected(txns, merchant)
            THEN Append(rest, Subscription(txns, merchant))
            ELSE rest

detect_subscriptions(txns) == DetectOver(txns, MerchantsOf(txns))

\* line 225 with line 245: self._normalize_merchant_name(merchant) calls
\* merchant.strip(), which raises AttributeError when the merchant whose
\* dict is being built is None.
DetectRaises(txns) ==
    \E k \in 1..Len(txns) : txns[k].merchant_name = None /\ IsDetected(txns, None)

\* A call of detect_subscriptions with any list of transactions.
InitDetect ==
    /\ WorkflowIdle
    /\ detect_io \in {[pc |-> "called", transactions |-> q, detected |-> <<>>] :
                        q \in SeqsUpTo(Transactions, MaxTxns)}
    /\ agent_io = NoCall
    /\ plaid = NoCall

\* A call of detect_subscriptions: it returns the list, or the
\* AttributeError leaves it and nothing is reported.
DetectCall ==
    /\ detect_io.pc = "called"
    /\ detect_io' =
          IF DetectRaises(detect_io.transactions)
          THEN [detect_io EXCEPT !.pc = "raised"]
          ELSE [detect_io EXCEPT !.pc = "returned",
                                 !.detected = detect_subscriptions(detect_io.transactions)]
    /\ UNCHANGED <<workflow_vars, agent_io, plaid>>

NextDetect == DetectCall

SpecDetect == InitDetect /\ [][NextDetect]_vars

\* ------------------------------------------------------------------ claims
Created(i) == pc[i] # "none"

NonTerminalStatus ==
    {"PENDING", "STARTING", "NAVIGATING", "AWAITING_2FA", "VERIFYING_2FA", "CAPTURING_PROOF"}

StatusEdges ==
    {<<"PENDING", "STARTING">>, <<"STARTING", "NAVIGATING">>,
     <<"NAVIGATING", "AWAITING_2FA">>, <<"NAVIGATING", "CAPTURING_PROOF">>,
     <<"AWAITING_2FA", "VERIFYING_2FA">>, <<"VERIFYING_2FA", "CAPTURING_PROOF">>,
     <<"CAPTURING_PROOF", "COMPLETED">>, <<"AWAITING_2FA", "TIMEOUT">>}
    \cup {<<s, "FAILED">> : s \in NonTerminalStatus}

\* C1: every change of the status of a workflow is one of the edges
\* PENDING->STARTING, STARTING->NAVIGATING, NAVIGATING->AWAITING_2FA,
\* NAVIGATING->CAPTURING_PROOF, AWAITING_2FA->VERIFYING_2FA,
\* VERIFYING_2FA->CAPTURING_PROOF, CAPTURING_PROOF->COMPLETED,
\* AWAITING_2FA->TIMEOUT or (non-terminal)->FAILED, whatever the activities
\* return and whenever signals, queries and the timer arrive.
C1_StatusFollowsEdges ==
    [][\A i \in Inst : (Created(i) /\ status'[i] # status[i])
                          => <<status[i], status'[i]>> \in StatusEdges]_vars

\* C1: a workflow that went through the 2FA steps and completed, after a
\* signal and a query.
C1_Witness ==
    /\ status["w1"] = "COMPLETED"
    /\ invoked["w1"] = <<"start_cancellation", "send_push_notification",
                         "inject_2fa_code", "capture_proof">>
    /\ api.op = "get_status"

\* C2: a query answered for a workflow that ended in TIMEOUT with a code
\* never signalled.
C2_Witness ==
    /\ pc["w1"] = "done"
    /\ status["w1"] = "TIMEOUT"
    /\ api.op = "get_status"
    /\ api.response = "TIMEOUT"

\* C2: once the status of a workflow is COMPLETED, FAILED or TIMEOUT, no
\* step changes its status, its pending 2FA code or its returned result, and
\* no further activity is invoked or attempted for it.
C2_TerminalIsFrozen ==
    [][\A i \in Inst : status[i] \in TerminalStatus
          => /\ status'[i] = status[i]
             /\ two_fa_code'[i] = two_fa_code[i]
             /\ returned'[i] = returned[i]
             /\ invoked'[i] = invoked[i]
             /\ attempt'[i] = attempt[i]]_vars

\* C3: a 2FA code sent to a workflow whose status is not AWAITING_2FA is
\* answered NotAwaitingSignal and leaves the pending code as it was.
C3_SignalOutsideWaitRejected ==
    [][/\ \A i \in Inst : (Created(i) /\ status[i] # "AWAITING_2FA")
                             => two_fa_code'[i] = two_fa_code[i]
       /\ (api' # api /\ api'.op = "submit_2fa_code" /\ ~api'.was_awaiting)
             => api'.response = "NotAwaitingSignal"]_vars

\* C4: the pending code is read once, and the step AWAITING_2FA ->
\* VERIFYING_2FA that reads it leaves two_fa_code None.
C4_ReadClearsCode ==
    [][\A i \in Inst :
          /\ Len(inject_input'[i]) <= 1
          /\ (status[i] = "AWAITING_2FA" /\ status'[i] = "VERIFYING_2FA")
                => two_fa_code'[i] = None]_vars

\* C5: the pending code is write-once: while a code is pending and not yet
\* consumed, a second signal does not replace it.
C5_PendingCodeWriteOnce ==
    [][\A i \in Inst : (status[i] = "AWAITING_2FA" /\ two_fa_code[i] # None)
                          => two_fa_code'[i] = two_fa_code[i]]_vars

\* The workflows of a subscription whose status is not final.
ActiveFor(sub) ==
    {i \in Inst : Created(i) /\ request[i].subscription_id = sub
                             /\ status[i] \notin TerminalStatus}

\* C6: a subscription has at most one workflow whose status is not final,
\* and a start request for a subscription that has one is answered
\* AlreadyActive.
C6_OneActivePerSubscription ==
    /\ \A sub \in Subs : Cardinality(ActiveFor(sub)) <= 1
    /\ (api.op = "start_cancellation" /\ api.had_active) => api.response = "AlreadyActive"

\* C7: a workflow that waits for the 2FA code and is never sent one reaches
\* TIMEOUT.
C7_UnansweredWaitTimesOut ==
    (status["w1"] = "AWAITING_2FA") ~> (status["w1"] = "TIMEOUT" \/ two_fa_code["w1"] # None)

\* C8: a workflow in TIMEOUT returned the reason "2FA not provided in
\* time".
C8_TimeoutReasonClaimed ==
    \A i \in Inst : status[i] = "TIMEOUT" => returned[i].reason = "2FA not provided in time"

\* The outcomes of an attempt of the begin step that are transient errors.
TransientOutcomes ==
    {"timeout", "raise_other", "raise_empty", "raise_Browser", "raise_Agent", "raise_close"}

\* C9: when every attempt of the begin step failed with a transient error,
\* the step was attempted exactly 3 times and the workflow is FAILED with
\* the last error.
C9_TransientFailuresExhaustRetries ==
    \A i \in Inst :
        (/\ pc[i] \in {"done", "raised"}
         /\ \A k \in 1..Len(start_log[i]) : start_log[i][k] \in TransientOutcomes)
        => /\ Len(start_log[i]) = 3
           /\ status[i] = "FAILED"
           /\ returned[i].message # "absent"

\* C10: the delay before retry k of the begin step is
\* min(1 s * f^(k-1), 300 s) for a fixed f > 1: the delays increase strictly
\* until capped, none exceeds 5 minutes, and no 4th attempt is made.  The
\* first conjuncts are about the delays a workflow waited, the last about
\* the policy at every retry index up to MaxRetryIndex, where the cap acts.
C10_BackoffDelays ==
    /\ \A i \in Inst :
        /\ Len(start_log[i]) <= 3
        /\ Len(delays[i]) <= 2
        /\ \E f \in 2..4 : \A k \in 1..Len(delays[i]) :
               delays[i][k] = Min(Pow(f, k - 1), 300)
        /\ \A k \in 1..Len(delays[i]) : delays[i][k] <= 300
        /\ \A k \in 1..(Len(delays[i]) - 1) :
               delays[i][k] < delays[i][k + 1] \/ delays[i][k] = 300
    /\ \E f \in 2..4 : \A k \in 1..MaxRetryIndex :
        /\ RetryDelay(k) = Min(Pow(f, k - 1), 300)
        /\ RetryDelay(k) < RetryDelay(k + 1) \/ RetryDelay(k) = 300

\* C10: the begin step was retried twice.
C10_Witness == Len(delays["w1"]) = 2 /\ Len(start_log["w1"]) = 3

\* C11: a request with a required parameter missing makes the begin step
\* report FAILED at its first attempt, without a run of the browser agent
\* and without a retry, and the workflow ends FAILED with that result.
C11_MissingParamsFailOnce ==
    \A i \in Inst :
        (Created(i) /\ ~request[i].params_ok) =>
            /\ agent_calls[i] = 0
            /\ delays[i] = <<>>
            /\ status[i] \in {"PENDING", "STARTING", "NAVIGATING", "FAILED"}
            /\ pc[i] \in {"init", "starting", "act_start", "step2", "done"}
            /\ pc[i] \in {"init", "starting", "act_start"} => start_log[i] = <<>>
            /\ pc[i] \in {"step2", "done"} =>
                   /\ start_log[i] = <<"missing_params">>
                   /\ result[i].status = "FAILED"
            /\ pc[i] = "done" =>
                   /\ status[i] = "FAILED"
                   /\ returned[i].status = "FAILED"
                   /\ returned[i].message =
                        "Missing required parameters: service_name, login_url, email, password"

\* C11: a workflow ended after the one attempt on an incomplete request.
C11_Witness ==
    /\ ~request["w1"].params_ok
    /\ pc["w1"] = "done"
    /\ status["w1"] = "FAILED"
    /\ start_log["w1"] = <<"missing_params">>

\* The begin step returned SUCCESS at its last attempt.
DirectSuccess(i) ==
    /\ Len(start_log[i]) > 0
    /\ start_log[i][Len(start_log[i])] = "ok"

\* C12: a workflow whose begin step returned SUCCESS never has status
\* AWAITING_2FA or VERIFYING_2FA, never invokes send_push_notification or
\* inject_2fa_code, and ends COMPLETED with a screenshot reference in the
\* dict it returns.
C12_DirectSuccessCompletesWithProof ==
    \A i \in Inst :
        DirectSuccess(i) =>
            /\ status[i] \notin {"AWAITING_2FA", "VERIFYING_2FA"}
            /\ \A k \in 1..Len(invoked[i]) :
                   invoked[i][k] \notin {"send_push_notification", "inject_2fa_code"}
            /\ pc[i] = "done" =>
                   /\ status[i] = "COMPLETED"
                   /\ returned[i].screenshot_url \notin {UrlNone, UrlAbsent}

\* run() has made the execute_activity call of activity a.
Invoked(i, a) == \E k \in 1..Len(invoked[i]) : invoked[i][k] = a

\* C13: once the begin step asked for 2FA and a code has been signalled, the
\* workflow reaches VERIFYING_2FA; when inject_2fa_code then returns SUCCESS
\* it goes on to capture_proof, and when capture_proof returns it reaches
\* COMPLETED.
C13_SignalledCodeLeadsToCompleted ==
    /\ (status["w1"] = "AWAITING_2FA" /\ two_fa_code["w1"] # None)
           ~> (status["w1"] = "VERIFYING_2FA")
    /\ (pc["w1"] = "step4" /\ Invoked("w1", "inject_2fa_code")
                           /\ result["w1"].status = "SUCCESS")
           ~> (status["w1"] = "CAPTURING_PROOF")
    /\ (pc["w1"] = "finish" /\ Invoked("w1", "inject_2fa_code"))
           ~> (status["w1"] = "COMPLETED")

\* inject_2fa_code has returned a dict whose status is not SUCCESS.
InjectFailed(i) ==
    /\ Invoked(i, "inject_2fa_code")
    /\ pc[i] \in {"step4", "done"}
    /\ result[i].status # "SUCCESS"

\* C14: status VERIFYING_2FA is left for FAILED when inject_2fa_code
\* reported a failure (for CAPTURING_PROOF otherwise); after that failure the
\* workflow only ends: its status is never AWAITING_2FA again, it does not
\* wait again and it passes no second code to inject_2fa_code.
C14_InjectFailureEndsFailed ==
    [][\A i \in Inst :
        /\ (status[i] = "VERIFYING_2FA" /\ status'[i] # "VERIFYING_2FA") =>
               status'[i] = IF result[i].status = "SUCCESS"
                            THEN "CAPTURING_PROOF" ELSE "FAILED"
        /\ InjectFailed(i) =>
               /\ status[i] \in {"VERIFYING_2FA", "FAILED"}
               /\ status'[i] \in {"VERIFYING_2FA", "FAILED"}
               /\ pc'[i] \in {"step4", "done"}
               /\ pc'[i] = "done" => status'[i] = "FAILED"
               /\ Len(inject_input[i]) = 1
               /\ inject_input'[i] = inject_input[i]
               /\ invoked'[i] = invoked[i]]_vars

\* C14: a workflow ended FAILED after inject_2fa_code reported a failure.
C14_Witness ==
    /\ InjectFailed("w1")
    /\ pc["w1"] = "done"
    /\ status["w1"] = "FAILED"
    /\ returned["w1"].status = "FAILED"

\* C15: a workflow whose status is COMPLETED holds a proof with a
\* screenshot reference, returned by capture_proof.
C15_CompletedOnlyWithProof ==
    \A i \in Inst :
        status[i] = "COMPLETED" =>
            /\ Invoked(i, "capture_proof")
            /\ proof[i] # UrlNone
            /\ returned[i].screenshot_url # UrlNone

\* C16: a workflow that ends after a successful 2FA flow with a failed
\* proof capture is COMPLETED and the dict it returns has proofMissing true.
C16_MissingProofIsFlagged ==
    \A i \in Inst :
        (/\ pc[i] = "done"
         /\ Invoked(i, "inject_2fa_code")
         /\ Invoked(i, "capture_proof")
         /\ proof[i] = UrlNone)
        => /\ status[i] = "COMPLETED"
           /\ returned[i].proofMissing = "true"

\* C17: a workflow that has invoked send_push_notification goes on to the
\* wait for the code, whatever becomes of the notification, and the
\* notification never makes it FAILED.
C17_NotificationNeverBlocks ==
    /\ (pc["w1"] = "act_push") ~> (pc["w1"] # "act_push")
    /\ [](pc["w1"] = "act_push" => status["w1"] = "AWAITING_2FA")
    /\ [](pc["w1"] = "wait" => status["w1"] = "AWAITING_2FA")

\* C18: a query is answered at every point of run(), with the status the
\* workflow has at that moment, and changes nothing of the workflow: not
\* its status, its pending code, its result or where run() stands.
C18_QueryReadsOnly ==
    [][/\ Created("w1") => ENABLED get_status("w1")
       /\ (api' # api /\ api'.op = "get_status") =>
              /\ api'.response = status["w1"]
              /\ UNCHANGED <<pc, status, two_fa_code, request, result, proof, returned,
                             attempt, delays, inject_input, invoked, agent_calls,
                             start_log, in_flight>>]_vars

\* C18: a query answered while inject_2fa_code is in flight; the code is
\* still there.
C18_Witness ==
    /\ api.op = "get_status"
    /\ api.response = "VERIFYING_2FA"
    /\ pc["w1"] = "act_inject"
    /\ in_flight["w1"] = {"inject_2fa_code"}
    /\ two_fa_code["w1"] # None

\* s is a prefix of t.
IsPrefix(s, t) == Len(s) <= Len(t) /\ \A k \in 1..Len(s) : s[k] = t[k]

\* C19: a workflow has at most one activity in flight, the one it invoked
\* last; it invokes start_cancellation, then send_push_notification and
\* inject_2fa_code (only when the begin step asked for 2FA), then
\* capture_proof, each at most once.
C19_ActivitiesInProgramOrder ==
    \A i \in Inst :
        /\ Cardinality(in_flight[i]) <= 1
        /\ in_flight[i] # {} =>
               /\ Len(invoked[i]) > 0
               /\ in_flight[i] = {invoked[i][Len(invoked[i])]}
        /\ \/ IsPrefix(invoked[i], <<"start_cancellation", "send_push_notification",
                                     "inject_2fa_code", "capture_proof">>)
           \/ IsPrefix(invoked[i], <<"start_cancellation", "capture_proof">>)
        /\ Invoked(i, "send_push_notification") =>
               start_log[i][Len(start_log[i])] = "raise_2FA"

\* C19: the four activities have been invoked and the last is in flight.
C19_Witness ==
    /\ invoked["w1"] = <<"start_cancellation", "send_push_notification",
                         "inject_2fa_code", "capture_proof">>
    /\ in_flight["w1"] = {"capture_proof"}

\* An attempt of the begin step of workflow i is recorded as successful:
\* the activity has completed and the agent has cancelled the subscription.
BeginRecorded(i) ==
    /\ pc[i] \notin {"none", "init", "starting", "act_start"}
    /\ start_log[i] # <<>>
    /\ start_log[i][Len(start_log[i])] = "ok"

\* The begin step is invoked for workflow j with the request it was invoked
\* with for workflow i: the code has no idempotency key, and the request
\* is all an invocation is known by.
SameInvocation(i, j) == pc[j] # "none" /\ request[j] = request[i]

\* C20: once an attempt of the begin step has been recorded as successful,
\* cancel_subscription is not run again: neither for that workflow, nor when
\* the step is invoked again with the same request.
C20_NoAgentRunAfterRecordedAttempt ==
    [][\A i, j \in Inst :
        (BeginRecorded(i) /\ SameInvocation(i, j)) =>
            agent_calls'[j] = agent_calls[j]]_vars

\* C22: run() never ends by raising; when it ends it has returned a dict,
\* the status is COMPLETED, FAILED or TIMEOUT, and a failure carries a
\* reason.
C22_RunEndsWithTerminalResult ==
    \A i \in Inst :
        /\ pc[i] # "raised"
        /\ pc[i] = "done" =>
               /\ status[i] \in TerminalStatus
               /\ returned[i].status \in {"SUCCESS", "FAILED"}
               /\ status[i] # "COMPLETED" =>
                      \/ returned[i].reason \notin {"absent", ""}
                      \/ returned[i].message \notin {"absent", ""}

\* C23: the dict run() returned says SUCCESS exactly when the status is
\* COMPLETED, and for a workflow in TIMEOUT it does not say FAILED.
C23_ResultAgreesWithStatus ==
    \A i \in Inst :
        pc[i] = "done" =>
            /\ returned[i].status = "SUCCESS" <=> status[i] = "COMPLETED"
            /\ status[i] = "TIMEOUT" => returned[i].status # "FAILED"

\* C24: the status of a workflow is always one of the eight statuses the
\* API documents.
C24_StatusIsDocumented ==
    \A i \in Inst : Created(i) => status[i] \in CancellationStatus

\* C25: a step that changes the pending code of a workflow (a signal)
\* changes nothing else of it, and a step that changes its status is a step
\* of run() along an edge of the status graph.
C25_SignalWritesOnlyCode ==
    [][\A i \in Inst :
        /\ (Created(i) /\ two_fa_code'[i] # two_fa_code[i]) =>
               /\ status'[i] = status[i]
               /\ pc'[i] = pc[i]
               /\ result'[i] = result[i]
               /\ returned'[i] = returned[i]
               /\ invoked'[i] = invoked[i]
        /\ (Created(i) /\ status'[i] # status[i]) =>
               /\ pc'[i] # pc[i]
               /\ two_fa_code'[i] = two_fa_code[i]
               /\ <<status[i], status'[i]>> \in StatusEdges]_vars

\* C25: a signal arrived while inject_2fa_code was in flight with an
\* earlier code.
C25_Witness ==
    /\ pc["w1"] = "act_inject"
    /\ status["w1"] = "VERIFYING_2FA"
    /\ inject_input["w1"][1].code = "482913"
    /\ two_fa_code["w1"] = "739154"

\* The session id generated by the attempt of the begin step that
\* returned: start_cancellation is given the number of the attempt.
StartSession(i) == Len(start_log[i])

\* C26: the session_id passed to inject_2fa_code and to capture_proof
\* exists and is the one start_cancellation returned.
C26_OneSessionHandle ==
    \A i \in Inst :
        /\ \A k \in 1..Len(inject_input[i]) :
               /\ inject_input[i][k].session_id # 0
               /\ inject_input[i][k].session_id = StartSession(i)
        /\ Invoked(i, "capture_proof") =>
               /\ result[i].session_id # 0
               /\ result[i].session_id = StartSession(i)

\* C26: capture_proof in flight on the 2FA path, the begin step having
\* returned at its second attempt.
C26_Witness ==
    /\ pc["w1"] = "act_proof"
    /\ Invoked("w1", "inject_2fa_code")
    /\ start_log["w1"] = <<"timeout", "raise_2FA">>
    /\ result["w1"].session_id = 2

\* The states the browser of the begin step's last attempt can be in.
SessionBrowser(i) ==
    IF start_log[i] = <<>> THEN {"none"}
    ELSE BrowserAfterAttempt(start_log[i][Len(start_log[i])])

\* C27: when inject_2fa_code or capture_proof has been invoked the browser
\* session start_cancellation opened is open.
C27_SessionIsLive ==
    \A i \in Inst :
        (Invoked(i, "inject_2fa_code") \/ Invoked(i, "capture_proof")) =>
            SessionBrowser(i) = {"open"}

\* C28: send_push_notification, inject_2fa_code and capture_proof are
\* attempted at most 3 times.
C28_EveryActivityBounded ==
    \A i \in Inst :
        pc[i] \in {"act_push", "act_inject", "act_proof"} => attempt[i] <= MaximumAttempts

\* C29: every started workflow reaches COMPLETED, FAILED or TIMEOUT.
C29_EveryWorkflowEnds ==
    (pc["w1"] = "init") ~> (status["w1"] \in TerminalStatus)

\* C30: inject_2fa_code is invoked at most once, with a code that was
\* signalled and is not empty, and never by a workflow in TIMEOUT.
C30_InjectOnceWithCode ==
    \A i \in Inst :
        /\ Len(inject_input[i]) <= 1
        /\ \A k \in 1..Len(inject_input[i]) : inject_input[i][k].code \notin {None, ""}
        /\ status[i] = "TIMEOUT" => inject_input[i] = <<>>

\* The activity that belongs to a status.
StatusActivity(st) ==
    CASE st = "NAVIGATING" -> {"start_cancellation"}
      [] st = "AWAITING_2FA" -> {"send_push_notification"}
      [] st = "VERIFYING_2FA" -> {"inject_2fa_code"}
      [] st = "CAPTURING_PROOF" -> {"capture_proof"}
      [] OTHER -> {}

\* C31: the activities a workflow has in flight are among those of its
\* status: none in PENDING, STARTING, COMPLETED, FAILED or TIMEOUT.
C31_InFlightMatchesStatus ==
    \A i \in Inst : in_flight[i] \subseteq StatusActivity(status[i])

\* C31: send_push_notification in flight, after a retried attempt.
C31_Witness ==
    /\ in_flight["w1"] = {"send_push_notification"}
    /\ status["w1"] = "AWAITING_2FA"
    /\ attempt["w1"] = 2

\* C32: a step that changes the pending code of a workflow changes no
\* pending code, status or result of another one, and a code passed to
\* inject_2fa_code is the one signalled to the same workflow.
C32_InstancesIsolated ==
    [][\A i \in Inst :
        /\ two_fa_code'[i] # two_fa_code[i] =>
               \A j \in Inst \ {i} :
                   /\ two_fa_code'[j] = two_fa_code[j]
                   /\ status'[j] = status[j]
                   /\ result'[j] = result[j]
                   /\ returned'[j] = returned[j]
        /\ \A k \in 1..Len(inject_input'[i]) :
               inject_input'[i][k].code = CodeFor(i)]_vars

\* C32: both workflows have passed their own code to inject_2fa_code.
C32_Witness ==
    /\ Len(inject_input["w1"]) = 1 /\ inject_input["w1"][1].code = "482913"
    /\ Len(inject_input["w2"]) = 1 /\ inject_input["w2"][1].code = "739154"
    /\ pc["w1"] = "act_inject"
    /\ pc["w2"] = "act_inject"

\* The text of the exception of case c marks a 2FA prompt.
Is2FAText(c) ==
    \/ \E w \in {<<"2", "F", "A">>} : Contains(c.text, w)
    \/ \E w \in {<<"v", "e", "r", "i", "f", "i", "c", "a", "t", "i", "o", "n">>,
                 <<"V", "e", "r", "i", "f", "i", "c", "a", "t", "i", "o", "n">>,
                 <<"V", "E", "R", "I", "F", "I", "C", "A", "T", "I", "O", "N">>} :
           Contains(c.text, w)

\* An exception is raised in a call of case c.
Raises(c) == c.stage # "none" \/ c.close # "ok"

\* C33: a call of cancel_subscription returns SUCCESS exactly when nothing
\* raised, 2FA_REQUIRED exactly when an exception was raised whose text
\* has "2FA" or, in any case of letters, "verification", FAILED for every
\* other exception; it never raises and the browser is closed at the end.
C33_AgentOutcomeClassified ==
    agent_io.pc = "returned" =>
        LET c == agent_io.case
            out == agent_io.out
        IN /\ out.status = "SUCCESS" <=> ~Raises(c)
           /\ out.status = "2FA_REQUIRED" <=> (Raises(c) /\ Is2FAText(c))
           /\ out.status = "FAILED" <=> (Raises(c) /\ ~Is2FAText(c))
           /\ out.status # "RAISED"
           /\ out.browser = "closed"

\* C34: a call of get_transactions ends, whatever pages it is answered.
C34_GetTransactionsTerminates ==
    (plaid.pc = "loop") ~> (plaid.pc \in {"returned", "raised"})

\* The charges of a merchant are recurring: at least 2, one amount, and
\* the days from the first to the last charge, divided by the number of
\* gaps between them, lie in 25..35.
Recurring(txns, merchant) ==
    LET idx == {k \in 1..Len(txns) : txns[k].merchant_name = merchant}
        days == {txns[k].date : k \in idx}
        first == CHOOSE d \in days : \A e \in days : d <= e
        last == CHOOSE d \in days : \A e \in days : e <= d
        gaps == Cardinality(idx) - 1
    IN /\ Cardinality(idx) >= 2
       /\ \A j, k \in idx : txns[j].amount = txns[k].amount
       /\ 25 * gaps <= last - first
       /\ last - first <= 35 * gaps

\* C35: a call of detect_subscriptions reports exactly the merchants whose
\* charges are recurring, each once; a merchant with one charge is not
\* reported.
C35_DetectsRecurringOnly ==
    detect_io.pc # "called" =>
        LET txns == detect_io.transactions
            out == detect_io.detected
        IN /\ detect_io.pc = "returned"
           /\ \A k \in 1..Len(txns) :
                  LET merchant == txns[k].merchant_name IN
                  (\E j \in 1..Len(out) : out[j].merchant_name = merchant)
                      <=> Recurring(txns, merchant)
           /\ \A j \in 1..Len(out) : \E k \in 1..Len(txns) :
                  txns[k].merchant_name = out[j].merchant_name
           /\ \A j, k \in 1..Len(out) :
                  out[j].merchant_name = out[k].merchant_name => j = k

====
